---- MODULE Spec2Model ----
(***************************************************************************)
(* clipse (selector/main.go): the clipboard history kept by the listener   *)
(* process (runListener), the interactive list (newModel and the item      *)
(* delegate) and the clear command, which share one JSON file.             *)
(*                                                                         *)
(* Strings are sequences of bytes, as in Go.  A history is a sequence of   *)
(* ClipboardItem records, newest first.  The file is a whole-file value:   *)
(* every writer truncates and rewrites it, and a write that fails after    *)
(* the truncation leaves a file no decoder accepts.                        *)
(***************************************************************************)
EXTENDS Integers, Sequences, FiniteSets, TLC

\* ------------------------------------------------------------- bounds
\* The capacity of the history.  The source writes the literal 50
\* (main.go:57); the model runs the same code with a small capacity so
\* that eviction happens within the explored states.
MAX_ENTRIES == 2

\* The listener reads time.Now() once per insertion; the model numbers the
\* readings 1, 2, ... and stops inserting after MaxClock readings.
MaxClock == 4

\* The number of earlier listeners that the model lets `listen` leave running
\* beside the one it starts.
MaxOld == 1

\* ------------------------------------------------------------- strings
a == <<97>>
\* A single byte 0xFF: not valid UTF-8 (what a clipboard owner may hand out).
BadByte == <<255>>
\* U+FFFD, the Unicode replacement character, in UTF-8.
RuneError == <<239, 191, 189>>
Empty == <<>>

\* The clipboard contents the environment may produce.
Texts == {Empty, a, BadByte, RuneError}

IsCont(x) == x >= 128 /\ x <= 191

\* utf8.DecodeRune: the width of the well-formed encoding that starts at
\* s[i], or 0 when s[i] does not start one.
RuneLen(s, i) ==
  LET n  == Len(s) - i + 1
      b0 == s[i]
      b1 == s[i + 1]
      b2 == s[i + 2]
      b3 == s[i + 3]
  IN  IF b0 < 128 THEN 1
      ELSE IF b0 >= 194 /\ b0 <= 223
        THEN IF n >= 2 /\ IsCont(b1) THEN 2 ELSE 0
      ELSE IF b0 >= 224 /\ b0 <= 239
        THEN IF n >= 3
                /\ (IF b0 = 224 THEN b1 >= 160 /\ b1 <= 191
                    ELSE IF b0 = 237 THEN b1 >= 128 /\ b1 <= 159
                    ELSE IsCont(b1))
                /\ IsCont(b2)
             THEN 3 ELSE 0
      ELSE IF b0 >= 240 /\ b0 <= 244
        THEN IF n >= 4
                /\ (IF b0 = 240 THEN b1 >= 144 /\ b1 <= 191
                    ELSE IF b0 = 244 THEN b1 >= 128 /\ b1 <= 143
                    ELSE IsCont(b1))
                /\ IsCont(b2) /\ IsCont(b3)
             THEN 4 ELSE 0
      ELSE 0

RECURSIVE CoerceFrom(_, _)
CoerceFrom(s, i) ==
  IF i > Len(s) THEN <<>>
  ELSE LET w == RuneLen(s, i)
       IN  IF w = 0
           THEN RuneError \o CoerceFrom(s, i + 1)
           ELSE SubSeq(s, i, i + w - 1) \o CoerceFrom(s, i + w)

\* encoding/json writes a Go string as a JSON string "coerced to valid
\* UTF-8, replacing invalid bytes with the Unicode replacement rune"; the
\* decoder does the same to the bytes of a JSON string it reads.  This is
\* the string a reader gets back from what Encode/Marshal wrote.
JsonString(s) == CoerceFrom(s, 1)

\* ------------------------------------------------------------- history
\* contains looking at the newest item only.
containsNewest(slice, str) == Len(slice) >= 1 /\ slice[1].Value = str

\* loop over the slice comparing item.Value
contains(slice, str) == \E i \in 1..Len(slice) : slice[i].Value = str

\* IsNew without the membership test: every non-empty text is recorded.
IsNewNoDedup(hist, text) == text # Empty

\* IsNew without the emptiness test: the empty text is recorded like any other.
IsNewNoEmptyTest(hist, text) == ~contains(hist, text)

\* main.go:55 the condition under which the listener records the text
IsNew(hist, text) == text # Empty /\ ~contains(hist, text)

\* Evict with the comparison off by one: the history may grow past the capacity.
EvictLate(hist) ==
  IF Len(hist) > MAX_ENTRIES THEN SubSeq(hist, 1, Len(hist) - 1) ELSE hist

\* Evict dropping the newest (first) item instead of the oldest.
EvictNewest(hist) ==
  IF Len(hist) >= MAX_ENTRIES THEN Tail(hist) ELSE hist

\* main.go:57-60 drop the oldest (last) item when the history is full
Evict(hist) ==
  IF Len(hist) >= MAX_ENTRIES THEN SubSeq(hist, 1, Len(hist) - 1) ELSE hist

\* main.go:64-66 the new item goes in front
Prepend(hist, text, timeNow) ==
  <<[Value |-> text, Recorded |-> timeNow]>> \o hist

\* RemoveValue leaving the loop at the match: what follows the match is lost.
RECURSIVE RemoveValueBreak(_, _)
RemoveValueBreak(hist, item) ==
  IF hist = <<>> THEN <<>>
  ELSE IF hist[1].Value # item
       THEN <<hist[1]>> \o RemoveValueBreak(Tail(hist), item)
       ELSE <<>>

\* main.go:436-441 keep the entries whose value differs from item
RECURSIVE RemoveValue(_, _)
RemoveValue(hist, item) ==
  IF hist = <<>> THEN <<>>
  ELSE IF hist[1].Value # item
       THEN <<hist[1]>> \o RemoveValue(Tail(hist), item)
       ELSE RemoveValue(Tail(hist), item)

\* m.RemoveItem(index)
RemoveAt(items, i) == SubSeq(items, 1, i - 1) \o SubSeq(items, i + 1, Len(items))

\* ------------------------------------------------------------- the file
\* What a JSON document written from a history decodes to.
JsonItems(hist) ==
  [i \in 1..Len(hist) |->
     [Value |-> JsonString(hist[i].Value), Recorded |-> hist[i].Recorded]]

\* encoder.Encode(data) of the listener: the slice is never nil here.
EncodeData(hist) == [doc |-> "array", items |-> JsonItems(hist)]

\* json.Marshal(updatedData) of the delete: a slice nothing was appended
\* to is nil and is written as null.
MarshalHistory(hist) ==
  [doc |-> IF hist = <<>> THEN "null" ELSE "array", items |-> JsonItems(hist)]

\* setBaseConfig: an empty array
BaseConfig == [doc |-> "array", items |-> <<>>]

\* A file truncated by a writer whose write then failed.
Broken == [doc |-> "invalid", items |-> <<>>]

Decodable(f) == f.doc # "invalid"

\* Decode/Unmarshal of a decodable file: null leaves the slice nil (empty).
Decoded(f) == JsonItems(f.items)

Values(hist) == {hist[i].Value : i \in 1..Len(hist)}
Unique(hist) == \A i, j \in 1..Len(hist) : hist[i].Value = hist[j].Value => i = j

VARIABLES
  file,       \* content of clipboard_history.json
  clipboard,  \* the system clipboard's text
  owner,      \* who set the clipboard last: "app" or "browser"
  now,        \* number of time.Now() readings taken so far
  lpc,        \* listener: "start", "poll", "sleep", "killed"
  data,       \* listener: data.ClipboardHistory
  text,       \* listener: the text read in the current iteration
  err,        \* listener: this iteration's save: "none" (not called), "nil",
              \*           "create" (os.Create failed), "write" (Encode failed)
  interrupt,  \* listener: signals buffered in the interrupt channel (cap 1)
  bpc,        \* browser: "off", "idle", "deleting", "exit0", "exit1", "panic"
  items,      \* browser: the list's items (titleFull, Recorded)
  status,     \* browser: the list's status message: "", "copied", "deleted"
  updated,    \* browser: deleteJsonItem's locals between its read and its write
  saved,      \* history: the listener has saved successfully since it started
  loadErr,    \* listener: whether the load at startup failed (err of main.go:42)
  old,        \* the number of earlier listeners that are still running
  lastcmd,    \* the last of the commands `listen` and `kill` that was run
  cleared     \* history: `clear` emptied a file that held entries while the
              \* listener was in its loop, and no entry has been recorded since

vars == <<file, clipboard, owner, now, lpc, data, text, err, interrupt, bpc, items, status,
          updated, loadErr, old, lastcmd, cleared, saved>>

lvars == <<lpc, data, text, err, interrupt, loadErr, saved>>
bvars == <<bpc, items, status, updated>>
cvars == <<old, lastcmd, cleared>>

NoUpdate == [item |-> Empty, read |-> <<>>]

Init ==
  /\ file = BaseConfig
  /\ clipboard = Empty
  /\ owner = "app"
  /\ now = 0
  /\ lpc = "start"
  /\ data = <<>>
  /\ text = Empty
  /\ err = "none"
  /\ interrupt = 0
  /\ bpc = "off"
  /\ items = <<>>
  /\ status = ""
  /\ updated = NoUpdate
  /\ loadErr = FALSE
  /\ saved = FALSE
  /\ old = 0
  /\ lastcmd = "listen"
  /\ cleared = FALSE

\* ------------------------------------------------------------- environment
\* Some application puts text on the clipboard (or clears it).
SetClipboard ==
  \E t \in Texts :
    /\ t # clipboard \/ owner # "app"
    /\ clipboard' = t
    /\ owner' = "app"
    /\ UNCHANGED <<file, now, lvars, bvars, cvars>>

\* ------------------------------------------------------------- listener
\* OnLoadError returning from runListener when the load failed.
OnLoadErrorReturn(failed) == IF failed THEN "exited" ELSE "poll"

\* main.go:42-45: an error of the load at startup is printed and the
\* function goes on to its loop.
OnLoadError(failed) == "poll"

\* runListener up to the loop: signal.Notify, then the one load of the file.
\* A failed open or decode is printed and leaves data empty.
ListenerStart ==
  \E openOk \in BOOLEAN :
    /\ lpc = "start"
    /\ lpc' = OnLoadError(~(openOk /\ Decodable(file)))
    /\ data' = IF openOk /\ Decodable(file) THEN Decoded(file) ELSE <<>>
    /\ loadErr' = ~(openOk /\ Decodable(file))
    /\ UNCHANGED saved
    /\ UNCHANGED <<file, clipboard, owner, now, text, err, interrupt, bvars, cvars>>

\* saveDataToFile: os.Create may fail (file untouched), the write after it
\* may fail (file left truncated), or the encoded history replaces the file.
saveDataToFile(f, hist, outcome) ==
  CASE outcome = "nil" -> EncodeData(hist)
    [] outcome = "create" -> f
    [] outcome = "write" -> Broken

\* OnTickError returning from runListener when the read or the save failed.
OnTickErrorReturn(failed) == IF failed THEN "exited" ELSE "sleep"

\* main.go:50-52 and 71-73: an error of the read or of the save is printed
\* and the iteration goes on to the sleep.
OnTickError(failed) == "sleep"

\* OnSaveError taking the new entry out of data again when the save failed.
OnSaveErrorUndo(hist, before, outcome) == IF outcome = "nil" THEN hist ELSE before

\* main.go:64-73: data is assigned before saveDataToFile is called, and an
\* error of the save is printed: data keeps the history with the new entry.
OnSaveError(hist, before, outcome) == hist

\* One iteration of the loop up to the sleep: read the clipboard (a failed
\* read yields the empty text), and when the text is new, evict, prepend and
\* save.  A failed save is printed; it does not undo the change to data.
ListenerTick ==
  \E readOk \in BOOLEAN, outcome \in {"nil", "create", "write"} :
    LET t == IF readOk THEN clipboard ELSE Empty
    IN  /\ lpc = "poll"
        /\ lpc' = OnTickError(~readOk \/ (IsNew(data, t) /\ outcome # "nil"))
        /\ text' = t
        /\ IF IsNew(data, t)
           THEN /\ now < MaxClock
                /\ now' = now + 1
                /\ data' = OnSaveError(Prepend(Evict(data), t, now + 1), data, outcome)
                /\ file' = saveDataToFile(file, Prepend(Evict(data), t, now + 1), outcome)
                /\ err' = outcome
                /\ cleared' = FALSE
                /\ saved' = (saved \/ outcome = "nil")
           ELSE /\ UNCHANGED saved
                /\ outcome = "nil"
                /\ err' = "none"
                /\ UNCHANGED <<now, data, file, cleared>>
        /\ UNCHANGED <<clipboard, owner, interrupt, loadErr, bvars, old, lastcmd>>

\* time.Sleep returns and the loop starts over.
ListenerWake ==
  /\ lpc = "sleep"
  /\ lpc' = "poll"
  /\ text' = Empty
  /\ err' = "none"
  /\ UNCHANGED <<file, clipboard, owner, now, data, interrupt, loadErr, saved, bvars, cvars>>

\* SIGINT or SIGTERM reaches the listener process.  Before signal.Notify
\* the default disposition ends the process; after it the signal is put in
\* the channel of capacity 1 (dropped when full), which the loop never reads.
Signal ==
  /\ lpc # "killed"
  /\ IF lpc = "start"
     THEN lpc' = "killed" /\ UNCHANGED interrupt
     ELSE interrupt' = 1 /\ UNCHANGED lpc
  /\ UNCHANGED <<file, clipboard, owner, now, data, text, err, loadErr, saved, bvars, cvars>>

Listener == ListenerStart \/ ListenerTick \/ ListenerWake

\* ------------------------------------------------------------- browser
Running == bpc \in {"idle", "deleting"}

\* newModel/getjsonData: the list is built from the file once; a failed
\* open ends in a failed decode, and a failed decode exits with code 1.
BrowserLaunch ==
  \E openOk \in BOOLEAN :
    /\ ~Running
    /\ status' = ""
    /\ updated' = NoUpdate
    /\ IF openOk /\ Decodable(file)
       THEN bpc' = "idle" /\ items' = Decoded(file)
       ELSE bpc' = "exit1" /\ items' = <<>>
    /\ UNCHANGED <<file, clipboard, owner, now, lvars, cvars>>

\* The user leaves the list.
BrowserQuit ==
  /\ bpc = "idle"
  /\ bpc' = "exit0"
  /\ items' = <<>>
  /\ status' = ""
  /\ UNCHANGED <<file, clipboard, owner, now, lvars, updated, cvars>>

\* keys.choose on the selected item: clipboard.WriteAll(fullValue); a
\* failed write panics.
BrowserCopy ==
  \E i \in 1..Len(items), writeOk \in BOOLEAN :
    /\ bpc = "idle"
    /\ IF writeOk
       THEN /\ clipboard' = items[i].Value
            /\ owner' = "browser"
            /\ status' = "copied"
            /\ UNCHANGED <<bpc, items>>
       ELSE /\ bpc' = "panic"
            /\ items' = <<>>
            /\ status' = ""
            /\ UNCHANGED <<clipboard, owner>>
    /\ UNCHANGED <<file, now, lvars, updated, cvars>>

\* OnDeleteError going on to the status message when deleteJsonItem failed.
OnDeleteErrorIgnored(failed) == "idle"

\* main.go:330-335: an error of deleteJsonItem ends the process by
\* os.Exit(1); without one the handler returns the status message "Deleted".
OnDeleteError(failed) == IF failed THEN "exit1" ELSE "idle"

\* The browser's variables once the delete handler is over with the outcome
\* bpc': after the exit, updated keeps the value whose deletion failed.
Exited(item, view) ==
  IF bpc' = "idle"
  THEN items' = view /\ status' = "deleted" /\ updated' = NoUpdate
  ELSE items' = <<>> /\ status' = "" /\ updated' = [item |-> item, read |-> <<>>]

\* keys.remove on the selected item, up to the write: the item leaves the
\* list, then deleteJsonItem reads and decodes the file.  A failed read or
\* decode makes the handler exit with code 1.
BrowserDeleteRead ==
  \E i \in 1..Len(items), readOk \in BOOLEAN :
    /\ bpc = "idle"
    /\ IF readOk /\ Decodable(file)
       THEN /\ bpc' = "deleting"
            /\ items' = RemoveAt(items, i)
            /\ updated' = [item |-> items[i].Value, read |-> Decoded(file)]
            /\ UNCHANGED status
       ELSE /\ bpc' = OnDeleteError(TRUE)
            /\ Exited(items[i].Value, RemoveAt(items, i))
    /\ UNCHANGED <<file, clipboard, owner, now, lvars, cvars>>

\* The rest of deleteJsonItem: filter, marshal and os.WriteFile.  The open
\* may fail (file untouched) or the write after the truncation may fail;
\* both make the handler exit with code 1.
deleteJsonItem(f, read, item, outcome) ==
  CASE outcome = "nil" -> MarshalHistory(RemoveValue(read, item))
    [] outcome = "open" -> f
    [] outcome = "write" -> Broken

BrowserDeleteWrite ==
  \E outcome \in {"nil", "open", "write"} :
    /\ bpc = "deleting"
    /\ file' = deleteJsonItem(file, updated.read, updated.item, outcome)
    /\ bpc' = OnDeleteError(outcome # "nil")
    /\ Exited(updated.item, items)
    /\ UNCHANGED <<clipboard, owner, now, lvars, cvars>>

Browser ==
  BrowserLaunch \/ BrowserQuit \/ BrowserCopy \/ BrowserDeleteRead \/ BrowserDeleteWrite

\* ------------------------------------------------------------- clear
\* `clear`: setBaseConfig opens, truncates and writes an empty history.
setBaseConfig(f, outcome) ==
  CASE outcome = "nil" -> BaseConfig
    [] outcome = "open" -> f
    [] outcome = "write" -> Broken

Clear ==
  \E outcome \in {"nil", "open", "write"} :
    /\ file' = setBaseConfig(file, outcome)
    /\ file' # file
    /\ cleared' = (outcome = "nil" /\ Decodable(file) /\ Decoded(file) # <<>>
                      /\ lpc \in {"poll", "sleep"})
    /\ UNCHANGED <<clipboard, owner, now, lvars, bvars, old, lastcmd>>

\* ------------------------------------------------------------- listen, kill
\* `pkill -f main.go` is taken to reach every listener (a pattern that
\* matches fewer processes only lets more of them live): SIGTERM ends a
\* process that has not yet called signal.Notify and is absorbed by one
\* that has.
\* `listen`: pkill, then a new listener is started, unless the start fails.
\* The listener that was in its loop keeps running beside the new one; the
\* model counts it and follows the new one.
Listen ==
  \E startOk \in BOOLEAN :
    /\ lastcmd' = "listen"
    /\ IF startOk
       THEN /\ old < MaxOld \/ lpc \notin {"poll", "sleep"}
            /\ old' = IF lpc \in {"poll", "sleep"} THEN old + 1 ELSE old
            /\ lpc' = "start"
            /\ data' = <<>>
            /\ text' = Empty
            /\ err' = "none"
            /\ interrupt' = 0
            /\ loadErr' = FALSE
            /\ saved' = FALSE
       ELSE /\ lpc' = IF lpc = "start" THEN "killed" ELSE lpc
            /\ interrupt' = IF lpc \in {"poll", "sleep"} THEN 1 ELSE interrupt
            /\ UNCHANGED <<data, text, err, loadErr, saved, old>>
    /\ UNCHANGED <<file, clipboard, owner, now, bvars, cleared>>

\* `kill`: pkill alone.
Kill ==
  /\ lastcmd' = "kill"
  /\ lpc' = IF lpc = "start" THEN "killed" ELSE lpc
  /\ interrupt' = IF lpc \in {"poll", "sleep"} THEN 1 ELSE interrupt
  /\ UNCHANGED <<file, clipboard, owner, now, data, text, err, loadErr, saved, old, bvars, cleared>>

\* The listeners that are running.
NumRunning == (IF lpc \in {"start", "poll", "sleep"} THEN 1 ELSE 0) + old

Next == SetClipboard \/ Listener \/ Signal \/ Browser \/ Clear

\* The listener and the commands `listen`, `kill` and `clear`.
NextListen == SetClipboard \/ Listener \/ Clear \/ Listen \/ Kill

ListenSpec == Init /\ [][NextListen]_vars

Spec == Init /\ [][Next]_vars

\* A fair listener: the loop's steps are taken as long as the process runs.
FairSpec == Spec /\ WF_vars(Listener)

\* ------------------------------------------------------------- steps
\* A step of the listener's loop body (ListenerTick), and one that recorded
\* the text it read.
TickStep == lpc = "poll" /\ lpc' = "sleep"
InsertStep == TickStep /\ err' # "none"

\* ------------------------------------------------------------- C1
\* C1 (uniqueness): in every reachable state neither the listener's
\* in-memory history nor the history held by the file has two entries
\* with the same value.
C1_Uniqueness == Unique(data) /\ (Decodable(file) => Unique(file.items))

\* The in-memory half of C1 on its own.
C1_MemoryUnique == Unique(data)

\* ------------------------------------------------------------- C2
\* C2 (capacity bound): in every reachable state the listener's in-memory
\* history and the history held by the file have at most MAX_ENTRIES entries.
C2_Capacity == Len(data) <= MAX_ENTRIES /\ Len(file.items) <= MAX_ENTRIES

\* More values than the capacity were recorded and both histories are full.
C2_Witness ==
  /\ now > MAX_ENTRIES
  /\ Len(data) = MAX_ENTRIES
  /\ Len(file.items) = MAX_ENTRIES

\* ------------------------------------------------------------- C3
\* C3 (eviction): a tick that records a new value while the history holds
\* MAX_ENTRIES entries drops exactly the last entry and keeps the others, in
\* order, behind the new one; below capacity it drops nothing.  Hence after
\* n insertions into the empty history the listener holds the last
\* min(n, MAX_ENTRIES) insertions, newest first (with MAX_ENTRIES = 2, the
\* third insertion leaves the third and the second).
C3_EvictStep ==
  InsertStep =>
    /\ data'[1].Value = text'
    /\ IF Len(data) >= MAX_ENTRIES
       THEN /\ Len(data') = Len(data)
            /\ \A i \in 1..(Len(data) - 1) : data'[i + 1] = data[i]
            /\ \A i \in 2..Len(data') : data'[i] # data[Len(data)]
       ELSE /\ Len(data') = Len(data) + 1
            /\ \A i \in 1..Len(data) : data'[i + 1] = data[i]

C3_LastInsertions ==
  lpc \in {"poll", "sleep"} =>
    /\ Len(data) = (IF now < MAX_ENTRIES THEN now ELSE MAX_ENTRIES)
    /\ \A i \in 1..Len(data) : data[i].Recorded = now + 1 - i

C3_Eviction == [][C3_EvictStep]_vars /\ []C3_LastInsertions

\* The listener has just recorded a value into a full history.
C3_Witness ==
  /\ lpc = "sleep"
  /\ err # "none"
  /\ now = MAX_ENTRIES + 1
  /\ Len(data) = MAX_ENTRIES
  /\ data[1].Recorded = now
  /\ data[Len(data)].Recorded = 2

\* ------------------------------------------------------------- C4
\* C4 (recency ordering): after a tick that records a value, that value is
\* the first entry of the listener's history and of the file it saved, and
\* the entries held before follow it in their prior order.
C4_MemoryStep ==
  InsertStep =>
    /\ data'[1].Value = text'
    /\ Tail(data') = SubSeq(data, 1, Len(data') - 1)

C4_FileStep ==
  (InsertStep /\ err' = "nil") =>
    /\ Decodable(file')
    /\ Decoded(file')[1].Value = text'
    /\ Tail(Decoded(file')) = SubSeq(data, 1, Len(data') - 1)

C4_Recency == [][C4_MemoryStep /\ C4_FileStep]_vars

\* The in-memory half of C4 on its own.
C4_MemoryRecency == [][C4_MemoryStep]_vars

\* ------------------------------------------------------------- C5
\* C5 (no-op on duplicate): a tick whose text equals the value of an entry
\* of the listener's history leaves the history (entries, order, timestamps)
\* and the file as they are and does not call the save.
C5_DuplicateStep ==
  (TickStep /\ text' \in Values(data)) =>
    /\ data' = data
    /\ file' = file
    /\ now' = now
    /\ err' = "none"

C5_NoOpOnDuplicate == [][C5_DuplicateStep]_vars

\* The listener sleeps after reading a value that it holds, not as its
\* newest entry, and made no save.
C5_Witness ==
  /\ lpc = "sleep"
  /\ text # Empty
  /\ err = "none"
  /\ Len(data) >= 2
  /\ text = data[2].Value

\* ------------------------------------------------------------- C6
\* C6 (no-op on empty): a tick whose text is empty, from an empty clipboard
\* or from a failed read, leaves the listener's history and the file as
\* they are and does not call the save.
C6_EmptyStep ==
  (TickStep /\ text' = Empty) =>
    /\ data' = data
    /\ file' = file
    /\ now' = now
    /\ err' = "none"

C6_NoOpOnEmpty == [][C6_EmptyStep]_vars

\* The listener sleeps after a failed read of a clipboard that holds a
\* value it has not recorded.
C6_Witness ==
  /\ lpc = "sleep"
  /\ text = Empty
  /\ clipboard # Empty
  /\ clipboard \notin Values(data)
  /\ data # <<>>

\* ------------------------------------------------------------- C7
\* C7 (delete correctness): a delete that completes leaves a file holding
\* no entry with the deleted value and every other entry of the file it
\* read, in the same order, with value and timestamp; when the value was
\* not in the file it read, the entries are the ones it read.
DeleteStep == bpc = "deleting" /\ bpc' = "idle"

C7_DeleteStep ==
  DeleteStep =>
    LET Other(e) == e.Value # updated.item
    IN  /\ Decodable(file')
        /\ updated.item \notin Values(Decoded(file'))
        /\ Decoded(file') = SelectSeq(updated.read, Other)
        /\ updated.item \notin Values(updated.read) => Decoded(file') = updated.read

C7_DeleteCorrect == [][C7_DeleteStep]_vars

\* A delete has completed and left the entry behind the deleted one in the
\* file and in the list.
C7_Witness ==
  /\ bpc = "idle"
  /\ status = "deleted"
  /\ file.doc = "array"
  /\ Len(items) = 1
  /\ file.items = items
  /\ items[1].Recorded = 1
  /\ now >= 2

\* ------------------------------------------------------------- C8
\* C8 (round trip): what a load decodes from the file a writer has just
\* written is the history that writer serialized: the listener's data, the
\* delete's filtered history, the empty history of clear.
C8_ListenerSave == (InsertStep /\ err' = "nil") => Decoded(file') = data'

C8_DeleteSave ==
  DeleteStep =>
    LET Other(e) == e.Value # updated.item
    IN  Decoded(file') = SelectSeq(updated.read, Other)

C8_ClearSave ==
  (file' # file /\ UNCHANGED <<lvars, bvars>> /\ Decodable(file')) =>
    Decoded(file') = <<>>

C8_RoundTrip == [][C8_ListenerSave /\ C8_DeleteSave /\ C8_ClearSave]_vars

\* The round trip of the files written by delete and clear on its own.
C8_BrowserRoundTrip == [][C8_DeleteSave /\ C8_ClearSave]_vars

\* ------------------------------------------------------------- C9
\* A copy: the browser stays idle and the clipboard becomes the browser's.
CopyStep ==
  /\ bpc = "idle" /\ bpc' = "idle"
  /\ owner' = "browser" /\ status' = "copied"
  /\ <<clipboard, owner, status>>' # <<clipboard, owner, status>>

\* A tick of the listener that reads the value a copy put on the clipboard.
ObserveCopyStep == TickStep /\ owner = "browser" /\ text' = clipboard

C9_CopyWrites ==
  CopyStep =>
    /\ clipboard' \in Values(items)
    /\ file' = file
    /\ data' = data
    /\ items' = items

\* C9 (copy does not mutate the store), as claimed: a copy puts the value of
\* an entry of the list on the clipboard and changes neither the file nor
\* the listener's history, and neither does the tick of the listener that
\* then reads the copied value.
C9_CopyNeverMutates ==
  [][C9_CopyWrites /\ (ObserveCopyStep => (file' = file /\ data' = data))]_vars

\* The claim for a copied value that is plain ASCII.
C9_CopyOfAsciiNeverMutates ==
  [][(ObserveCopyStep /\ text' = a) => (file' = file /\ data' = data)]_vars

\* C9 amended: a copy puts the value of an entry of the list on the
\* clipboard and changes neither the file nor the listener's history; the
\* tick that then reads the copied value changes nothing when the value is
\* in the listener's history, and otherwise records it as a new first entry.
C9_ObserveStep ==
  ObserveCopyStep =>
    IF text' \in Values(data)
    THEN file' = file /\ data' = data
    ELSE data'[1] = [Value |-> text', Recorded |-> now']

C9_CopyAmended == [][C9_CopyWrites /\ C9_ObserveStep]_vars

\* The listener sleeps after reading a copied value that it holds as its
\* older entry: nothing was saved and the entry was not moved.
C9_Witness ==
  /\ lpc = "sleep"
  /\ owner = "browser"
  /\ status = "copied"
  /\ text = clipboard
  /\ err = "none"
  /\ Len(data) = 2
  /\ data[2].Value = text
  /\ Decodable(file)
  /\ Decoded(file) = data

\* ------------------------------------------------------------- C10
\* C10 (termination): once a termination signal has been delivered to the
\* running listener, the listener eventually leaves its loop.
C10_Terminates == (interrupt = 1) ~> (lpc \notin {"poll", "sleep"})

\* ------------------------------------------------------------------- C11
\* C11 (as claimed): after any sequence of `listen` and `kill` at most one
\* listener is running, and after `kill` none is.
C11_SingleWriter ==
  /\ NumRunning <= 1
  /\ lastcmd = "kill" => NumRunning = 0

\* C11, first half alone: `listen` leaves no earlier listener running.
C11_AtMostOne == NumRunning <= 1

\* C11, second half alone: after `kill` no listener is running.
C11_NoneAfterKill == lastcmd = "kill" => NumRunning = 0

\* ------------------------------------------------------------------- C12
\* A step of `clear` that wrote its file.
ClearStep == file' # file /\ file' = BaseConfig /\ UNCHANGED <<lvars, bvars>>

\* C12 (as claimed): `clear` leaves the file with an empty history, and the
\* first save of the listener after a `clear` that emptied the file writes
\* the new entry alone: no entry recorded before the `clear` comes back.
C12_ClearStep ==
  /\ ClearStep => Decodable(file') /\ Decoded(file') = <<>>
  /\ (InsertStep /\ err' = "nil" /\ cleared) =>
       \A i \in 1..Len(Decoded(file')) : Decoded(file')[i].Recorded = now'

C12_Clear == [][C12_ClearStep]_vars

\* C12, first half alone: the file after `clear` holds an empty history.
C12_ClearEmpties == [][ClearStep => Decodable(file') /\ Decoded(file') = <<>>]_vars

\* ------------------------------------------------------------------- C13
\* C13: a Delete whose read, decode or rewrite of the file fails ends the
\* browser with exit code 1; the browser goes on after a Delete only when the
\* file has been rewritten without the deleted value, and its list changes
\* while it runs only by a Delete that has read and decoded the file.
C13_DeleteExit ==
  /\ (bpc = "deleting" /\ bpc' # "deleting") =>
       \/ bpc' = "exit1"
       \/ /\ bpc' = "idle"
          /\ Decodable(file')
          /\ updated.item \notin Values(Decoded(file'))
  /\ (bpc = "idle" /\ items' # items) =>
       \/ bpc' \in {"exit0", "exit1", "panic"}
       \/ bpc' = "deleting" /\ Decodable(file)

C13_DeleteFailureFatal == [][C13_DeleteExit]_vars

\* The browser has exited with code 1 out of a Delete, and the file still
\* holds the value that was to be deleted.
C13_Witness ==
  /\ bpc = "exit1"
  /\ updated.item # Empty
  /\ Decodable(file)
  /\ updated.item \in Values(Decoded(file))

\* ------------------------------------------------------------------- C14
\* C14 (as claimed): a Copy whose clipboard write fails leaves the browser
\* running, able to handle a later Copy or Delete, and leaves the file as it
\* was.
C14_CopyFailureLocal == [][bpc = "idle" => bpc' # "panic" /\ (CopyStep => file' = file)]_vars

\* C14, the part about the Store alone: no Copy, failed or not, changes the file.
C14_CopyKeepsFile == [][(CopyStep \/ (bpc = "idle" /\ bpc' = "panic")) => file' = file]_vars

\* ------------------------------------------------------------------- C15
\* An iteration of the loop whose clipboard read or whose save failed: the
\* read failed when the text is empty though the clipboard is not.
FailedTickStep ==
  /\ lpc = "poll" /\ lpc' # "poll"
  /\ \/ text' = Empty /\ clipboard # Empty
     \/ err' \in {"create", "write"}

\* The listener sleeps after an iteration that failed.
FailedTick ==
  /\ lpc = "sleep"
  /\ \/ text = Empty /\ clipboard # Empty
     \/ err \in {"create", "write"}

\* C15: an iteration whose read or save failed ends in the sleep like any
\* other, and the listener leaves the sleep only for its next iteration.
C15_FailedStep ==
  /\ FailedTickStep => lpc' = "sleep"
  /\ FailedTick => lpc' \in {"sleep", "poll"}

C15_Resilience == [][C15_FailedStep]_vars

\* C15, under a fair listener: after an iteration that failed the listener
\* does reach its next iteration.
C15_PollsAgain == FailedTick ~> (lpc = "poll")

\* The listener sleeps after an iteration whose save failed.
C15_Witness == lpc = "sleep" /\ err \in {"create", "write"}

\* ------------------------------------------------------------------- C16
\* C16 (as claimed): the file a listener's save writes is the file as it
\* was at that moment with the new entry added in front, that is, what a
\* cycle that loads the file, records the text and saves would write.
C16_FreshLoad ==
  [][(InsertStep /\ err' = "nil" /\ Decodable(file)) =>
       file' = EncodeData(Prepend(Evict(Decoded(file)), text', now'))]_vars

\* C16, the case of a Delete: after a Delete has emptied the file, the
\* listener's next save writes the new entry alone.
C16_KeepsDelete ==
  [][(InsertStep /\ err' = "nil" /\ file = MarshalHistory(<<>>)) => Len(Decoded(file')) = 1]_vars

\* ------------------------------------------------------------------- C17
Entries(hist) == {hist[i] : i \in 1..Len(hist)}

\* A save of the listener or a write of a Delete that has completed.
WriteStep == (InsertStep /\ err' = "nil") \/ DeleteStep

\* C17 (as claimed): the file after a completed write is the serialization
\* of the whole store of its writer; the entries that a save of the listener
\* put in the file between a Delete's read and its write are gone after the
\* write; and the file has no value twice and at most MAX_ENTRIES entries.
C17_WriteStep ==
  /\ (InsertStep /\ err' = "nil") => file' = EncodeData(data')
  /\ DeleteStep =>
       /\ file' = MarshalHistory(RemoveValue(updated.read, updated.item))
       /\ Decodable(file) =>
            (Entries(Decoded(file)) \ Entries(updated.read)) \cap Entries(Decoded(file')) = {}
  /\ WriteStep => Unique(Decoded(file')) /\ Len(Decoded(file')) <= MAX_ENTRIES

C17_LastWriteWins == [][C17_WriteStep]_vars

\* C17 without the uniqueness of the values in the file.
C17_Overwrite ==
  [][/\ (InsertStep /\ err' = "nil") => file' = EncodeData(data')
     /\ DeleteStep =>
          /\ file' = MarshalHistory(RemoveValue(updated.read, updated.item))
          /\ Decodable(file) =>
               (Entries(Decoded(file)) \ Entries(updated.read)) \cap Entries(Decoded(file')) = {}
     /\ WriteStep => Len(Decoded(file')) <= MAX_ENTRIES]_vars

\* ------------------------------------------------------------------- C18
Stamps(hist) == {hist[i].Recorded : i \in 1..Len(hist)}

\* The entry recorded at r is in the listener's memory and not in the file,
\* nor in what a Delete has read and is about to write back.
Unsaved(r) ==
  /\ r \in Stamps(data)
  /\ Decodable(file) => r \notin Stamps(Decoded(file))
  /\ r \notin Stamps(updated.read)

\* C18: a save that fails leaves the new entry in memory and not in the
\* file; a tick that reads the value of an entry that is in memory and not
\* in the file makes no save; such an entry gets into the file only by a
\* save of the listener that succeeds, made for another value; and a save
\* that succeeds writes every entry in memory.
C18_SaveStep ==
  /\ (InsertStep /\ err' \in {"create", "write"}) =>
       /\ data' # <<>>
       /\ data'[1] = [Value |-> text', Recorded |-> now']
       /\ Decodable(file') => now' \notin Stamps(Decoded(file'))
  /\ \A i \in 1..Len(data) :
       (TickStep /\ Unsaved(data[i].Recorded) /\ text' = data[i].Value) =>
         err' = "none" /\ file' = file /\ data' = data
  /\ \A i \in 1..Len(data) :
       (Unsaved(data[i].Recorded) /\ Decodable(file')
          /\ data[i].Recorded \in Stamps(Decoded(file'))) =>
         InsertStep /\ err' = "nil" /\ text' # data[i].Value
  /\ (InsertStep /\ err' = "nil") => Stamps(Decoded(file')) = Stamps(data')

C18_FailedSaveKept == [][C18_SaveStep]_vars

\* The one save so far failed, and a later tick that read the same value
\* made no save: the entry is in memory and the file is as it was.
C18_Witness ==
  /\ lpc = "sleep" /\ err = "none"
  /\ now = 1 /\ data # <<>> /\ text = data[1].Value
  /\ file = BaseConfig /\ ~cleared /\ bpc = "off"

\* ------------------------------------------------------------------- C19
\* The first save that succeeds of a listener whose load at startup failed.
FirstSaveStep == InsertStep /\ err' = "nil" /\ loadErr /\ ~saved

\* C19 (as claimed): the first save that succeeds of a listener whose load
\* failed writes a history that holds the new entry and nothing else.
C19_OnlyNewValue ==
  [][FirstSaveStep => file' = EncodeData(<<[Value |-> text', Recorded |-> now']>>)]_vars

\* C19 (amended): a listener whose load fails enters its loop with an empty
\* history; in the loop its history changes only by the entries it records,
\* never by a load; its first save that succeeds writes the history it has
\* recorded since it started, of which nothing was in the file before, and
\* that is the new entry alone when no save failed before.
C19_StartStep ==
  /\ (lpc = "start" /\ loadErr') => lpc' = "poll" /\ data' = <<>>
  /\ (lpc \in {"poll", "sleep"} /\ lpc' \in {"poll", "sleep"} /\ data' # data) =>
       InsertStep /\ data' = Prepend(Evict(data), text', now')
  /\ FirstSaveStep =>
       /\ file' = EncodeData(data')
       /\ Decodable(file) => Stamps(Decoded(file)) \cap Stamps(Decoded(file')) = {}
       /\ data = <<>> => Len(Decoded(file')) = 1

C19_StartupLoadFailure == [][C19_StartStep]_vars

\* A listener started beside an earlier one, whose load failed, has made its
\* first save, after the earlier one had recorded an entry.
C19_Witness ==
  /\ lpc = "sleep" /\ err = "nil"
  /\ loadErr /\ saved
  /\ old = 1 /\ now = 2 /\ Len(data) = 1

============================================================================
